---- MODULE Spec2Model ----
(***************************************************************************)
(* The job-processing core of aig_pic: the task lifecycle, the worker pool *)
(* draining the FIFO queue (src/src/tasks.py), the persisted task table    *)
(* (src/src/db.py), configuration lookup (src/src/config.py) and the       *)
(* startup / shutdown sequence of the application (src/app.py).            *)
(*                                                                         *)
(* Scheduling is asyncio's: the code between two suspension points of a    *)
(* coroutine runs atomically, so one action is one such stretch of code.   *)
(* A process can be killed at any time; only the task table and the        *)
(* configuration file survive it.                                          *)
(***************************************************************************)
EXTENDS Integers, Sequences, FiniteSets, TLC

(* ------------------------------ bounds --------------------------------- *)
MaxTasks == 2
MaxRestarts == 1

(* --------------------------- value domains ----------------------------- *)
\* Python None / SQL NULL for a text column, and for a timestamp column.
NoneVal == "<None>"
NullTime == 0
\* SQL NULL of the results column (db readers turn it into the empty list).
NullResults == << >>

QUEUED == "queued"
RUNNING == "running"
SUCCEEDED == "succeeded"
FAILED == "failed"
Terminal == {SUCCEEDED, FAILED}

\* Numbers of file names a successful generation call returns.
ResultCounts == {2}

\* str(e) of the exceptions a generation call raises; httpx timeouts have
\* an empty message.
ErrTexts == {"", "HTTP 500"}

\* Entries of api_configs.  A URL is a sequence of characters.
CfgA == [name |-> "a", base_url |-> <<"a", "/">>, api_key |-> "ka", model |-> "m1"]
CfgB == [name |-> "b", base_url |-> <<"b">>, api_key |-> "kb", model |-> "m2"]
CfgSlash == [name |-> "a", base_url |-> <<"/">>, api_key |-> "ka", model |-> "m1"]
CfgNoKey == [name |-> "a", base_url |-> <<"a">>, api_key |-> "", model |-> "m1"]

\* Contents the configuration file (data/configs.json) takes.  The file is
\* the operator's: every read of it may find any of these contents.
ConfigFiles ==
    { [api_configs |-> <<CfgA>>, max_concurrent |-> 2],
      [api_configs |-> <<CfgB, CfgA>>, max_concurrent |-> 2],
      [api_configs |-> << >>, max_concurrent |-> 0],
      [api_configs |-> <<CfgSlash>>, max_concurrent |-> 1],
      [api_configs |-> <<CfgNoKey>>, max_concurrent |-> 1] }

\* config_name values a request carries.
RequestNames == {NoneVal, "a"}

\* The WebSocket connections a process accepts, one object per connection,
\* named in the order they are accepted.
ClientOrder == <<"c1", "c2">>
Clients == {ClientOrder[k] : k \in DOMAIN ClientOrder}

\* image_data of a request that carries a reference image (a data URL).
RefImage == "data:image"

\* n and image_data of the creation requests.
RequestCounts == {1, 3}
RequestImages == {NoneVal, RefImage}

\* No reading of the configuration file on record.
NoFile == [api_configs |-> << >>, max_concurrent |-> 0]

VARIABLES
    phase,           \* where the process is: "start", "reset", "requeued", "serving", "stopped"
    epoch,           \* number of process restarts so far
    db,              \* tasks table: task_id -> row
    tasks,           \* TaskQueue.tasks: task_id -> Task
    queue,           \* TaskQueue.queue
    running_tasks,   \* TaskQueue.running_tasks
    worker_tasks,    \* TaskQueue.worker_tasks: the worker coroutines
    is_running,      \* TaskQueue.is_running
    max_concurrent,  \* TaskQueue.max_concurrent
    pool_size,       \* history: max_concurrent when start_workers built the pool
    put_log,         \* history: ids passed to queue.put in this process, in order
    start_log,       \* history: ids a worker of this process marked running, in order
    reset_count,     \* startup_event's reset_count, 0 outside startup_event
    requeue_file,    \* history: the configuration file as startup's requeue_pending_tasks read it
    websocket_clients,  \* TaskQueue.websocket_clients
    ws_handlers,     \* the websocket_tasks handler of each connection: "idle", "open", "closed"
    broadcast_tasks, \* TaskQueue._broadcast_tasks, the broadcast coroutines in creation order
    images,          \* images table: the file names insert_image registered
    gen_call,        \* the generate_images call in flight in a worker's thread
    post_answer,     \* history: the last POST /api/tasks followed to its answer
    fetched          \* a client.get response whose file extension is determined

vars == <<phase, epoch, db, tasks, queue, running_tasks, worker_tasks,
          is_running, max_concurrent, pool_size, put_log, start_log, reset_count,
          requeue_file, websocket_clients, ws_handlers, broadcast_tasks, images,
          gen_call, post_answer, fetched>>

obsvars == <<websocket_clients, ws_handlers, broadcast_tasks>>
genvars == <<images, gen_call>>
auxvars == <<post_answer, fetched>>

memvars == <<tasks, queue, running_tasks, worker_tasks, is_running,
             max_concurrent, pool_size, put_log, start_log>>

\* datetime.now().isoformat(), read at the resolution of one process run:
\* readings taken by the same process are equal, a later process reads a
\* later time.  Readings are positive, NullTime is no reading.
Now == epoch + 1

(* ------------------------------ config.py ------------------------------ *)
Max(a, b) == IF a >= b THEN a ELSE b
Min(a, b) == IF a <= b THEN a ELSE b

get_max_concurrent(file) == Max(1, Min(10, file.max_concurrent))

\* Position in api_configs of the first entry with the name, 0 when none has it.
RECURSIVE FindByName(_, _, _)
FindByName(cs, name, i) ==
    IF i > Len(cs) THEN 0
    ELSE IF cs[i].name = name THEN i
    ELSE FindByName(cs, name, i + 1)

\* The named entry, else the first entry, else None.  The result is the
\* entry's position in api_configs, 0 standing for None.
select_config(file, config_name) ==
    LET found == IF config_name # NoneVal
                 THEN FindByName(file.api_configs, config_name, 1)
                 ELSE 0
    IN IF found # 0 THEN found
       ELSE IF file.api_configs # << >> THEN 1
       ELSE 0

RECURSIVE rstrip_slash(_)
rstrip_slash(u) ==
    IF u # << >> /\ u[Len(u)] = "/" THEN rstrip_slash(SubSeq(u, 1, Len(u) - 1))
    ELSE u

\* The settings dictionary built from a resolved entry (app.py:165-171,
\* tasks.py:217-223).
MakeSettings(config, file) ==
    [base_url |-> rstrip_slash(config.base_url),
     api_key |-> config.api_key,
     model |-> config.model,
     max_concurrent |-> get_max_concurrent(file)]

SettingsUsable(settings) == settings.base_url # << >> /\ settings.api_key # ""

\* No settings resolved, and no request answered yet.
NoSettings == [base_url |-> << >>, api_key |-> "", model |-> "", max_concurrent |-> 0]
NoAnswer == [n |-> 0, image_data |-> NoneVal, config |-> NoneVal, code |-> 0,
             task_id |-> 0, settings |-> NoSettings]

(* -------------------------------- db.py -------------------------------- *)
insert_task(D, task_id, status, n, config_name, now) ==
    [t \in DOMAIN D \cup {task_id} |->
        IF t = task_id
        THEN [status |-> status, n |-> n, created_at |-> now, started_at |-> NullTime,
              finished_at |-> NullTime, results |-> NullResults,
              error |-> NoneVal, config_name |-> config_name]
        ELSE D[t]]

\* Only the arguments that are truthy are written.
update_task_status(D, task_id, status, started_at, finished_at, results, error) ==
    [t \in DOMAIN D |->
        IF t = task_id
        THEN [D[t] EXCEPT
                !.status = status,
                !.started_at = IF started_at # NullTime THEN started_at ELSE @,
                !.finished_at = IF finished_at # NullTime THEN finished_at ELSE @,
                !.results = IF results # NullResults THEN results ELSE @,
                !.error = IF error # NoneVal /\ error # "" THEN error ELSE @]
        ELSE D[t]]

\* cursor.rowcount of the UPDATE of reset_running_tasks_to_queued.
ResetRowcount(D) == Cardinality({t \in DOMAIN D : D[t].status = RUNNING})

\* The demotion with finished_at left out of the SET list.
ResetKeepsFinishedAt(D, reason) ==
    [t \in DOMAIN D |->
        IF D[t].status = RUNNING
        THEN [D[t] EXCEPT !.status = QUEUED, !.started_at = NullTime,
                          !.error = reason]
        ELSE D[t]]

reset_running_tasks_to_queued(D, reason) ==
    [t \in DOMAIN D |->
        IF D[t].status = RUNNING
        THEN [D[t] EXCEPT !.status = QUEUED, !.started_at = NullTime,
                          !.finished_at = NullTime, !.error = reason]
        ELSE D[t]]

\* Ids of the rows, ORDER BY created_at ASC; rows of equal created_at come
\* in insertion order (the table's AUTOINCREMENT id, which is the order in
\* which the model numbers task ids).
RECURSIVE SortByCreated(_, _)
SortByCreated(D, ids) ==
    IF ids = {} THEN << >>
    ELSE LET first == CHOOSE t \in ids :
                        \A u \in ids :
                            \/ D[t].created_at < D[u].created_at
                            \/ D[t].created_at = D[u].created_at /\ t <= u
         IN <<first>> \o SortByCreated(D, ids \ {first})

\* The query without its WHERE clause.
ListIgnoresStatus(D, status) == SortByCreated(D, DOMAIN D)

list_tasks_by_status(D, status) ==
    SortByCreated(D, {t \in DOMAIN D : D[t].status = status})

\* insert_image for each file name of a list (tasks.py:123-124).
insert_images(I, files) == I \cup {files[i] : i \in DOMAIN files}

(* ------------------------------ client.py ------------------------------ *)
\* _save_url_images' default max_concurrent and _download_single_image's
\* default max_retries.
DownloadConcurrency == 2
MaxRetries == 3

\* Numbers of entries in the data list of a response.
BatchSizes == {3}

\* Text as the sequence of its characters: `sub in text`, text.endswith(suf).
Contains(sub, text) ==
    \E i \in 0..(Len(text) - Len(sub)) : SubSeq(text, i + 1, i + Len(sub)) = sub
EndsWith(text, suf) ==
    Len(text) >= Len(suf) /\ SubSeq(text, Len(text) - Len(suf) + 1, Len(text)) = suf

Jpeg == <<"j", "p", "e", "g">>
Jpg == <<"j", "p", "g">>
Png == <<"p", "n", "g">>
Webp == <<"w", "e", "b", "p">>
Dot == <<".">>

\* Lines 229-236 of _download_single_image: the extension of the file, from
\* the content-type header of the response and the URL.
ext(content_type, image_url) ==
    IF \/ Contains(Jpeg, content_type) \/ Contains(Jpg, content_type)
       \/ EndsWith(image_url, Dot \o Jpg)
    THEN "jpg"
    ELSE IF Contains(Png, content_type) \/ EndsWith(image_url, Dot \o Png)
    THEN "png"
    ELSE "jpg"

\* Values of the content-type header (empty when the response has none)
\* and image URLs.
ImageSlash == <<"i", "m", "a", "g", "e", "/">>
ContentTypes ==
    { ImageSlash \o Jpeg, ImageSlash \o Jpg, ImageSlash \o Png, ImageSlash \o Webp,
      ImageSlash \o Png \o <<";", "q">>, <<"b", "i", "n">>, << >> }
UrlStem == <<"h", ":", "/", "a">>
ImageUrls ==
    { UrlStem \o Dot \o Jpg, UrlStem \o Dot \o Png, UrlStem \o Dot \o Webp,
      UrlStem \o Dot \o Jpeg, UrlStem, UrlStem \o Dot \o Jpg \o <<"?", "s">>,
      UrlStem \o Dot \o Png \o <<"?", "s">>, UrlStem \o <<"/">> \o Png }

\* No response on record, and the responses whose extension is determined.
NoFetch == [content_type |-> << >>, image_url |-> << >>, ext |-> NoneVal]
FetchCases ==
    { [content_type |-> ct, image_url |-> u, ext |-> NoneVal] :
        ct \in ContentTypes, u \in ImageUrls }

\* One download of a batch (download_with_semaphore):
\*   st = "sem"    waiting for the semaphore
\*   st = "fetch"  holding it, awaiting client.get, attempt `attempt`
\*   st = "sleep"  holding it, awaiting asyncio.sleep(1) after a failed attempt
\*   st = "done"   file written, file name returned (on attempt `attempt`)
\*   st = "raised" the last attempt's exception re-raised; err is its kind:
\*                 "http" for httpx.HTTPStatusError, "other" for any other
\* idx and url are the arguments enumerate(data, 1) gave it (line 277);
\* rank is its place in the order in which the downloads wrote their files.
NewItem(idx, url) ==
    [st |-> "sem", attempt |-> 0, err |-> NoneVal, idx |-> idx, url |-> url, rank |-> 0]

\* The data list of a response with n url entries.
UrlData(n) == [k \in 1..n |-> <<"url", k>>]

\* Lines 276-277: one download per entry of the data list.
Downloads(data) == [k \in DOMAIN data |-> NewItem(k, data[k])]

\* The generate_images call in flight: the worker whose thread runs it,
\* whether the task has image_data, and where the call is:
\*   "post1" awaiting the first POST     "batch1" in _save_url_images for it
\*   "post2" awaiting the fallback POST  "batch2" in _save_url_images for it
\* items are the downloads of the batch.  The downloads of a batch that
\* failed keep running until the call ends; they only write files and are
\* not followed.
NoCall == [owner |-> 0, img2img |-> FALSE, stage |-> "none", data |-> << >>,
           items |-> << >>]

\* The file name a save writes for the call of task t: the timestamp and
\* short id of the batch, then the ordinal idx (lines 193 and 239).
FileName(t, stage, idx) == <<t, idx, stage>>

\* _save_b64_images: the entries are saved one after the other, entry i
\* under ordinal i.
CallFiles(t, stage, n) == [i \in 1..n |-> FileName(t, stage, i)]

\* A gather whose results come in the order the downloads ended.
GatherAsCompleted(t, stage, items) ==
    [i \in DOMAIN items |->
        FileName(t, stage, (CHOOSE k \in DOMAIN items : items[k].rank = i))]

\* asyncio.gather (line 280): the results of the downloads in the order
\* of the awaitables, which is the order of the data list.
Gather(t, stage, items) ==
    [k \in DOMAIN items |-> FileName(t, stage, items[k].idx)]

\* A semaphore that a sleeping download does not hold.
HoldingFetchOnly(items) == {k \in DOMAIN items : items[k].st = "fetch"}

\* The downloads inside `async with semaphore`.
Holding(items) == {k \in DOMAIN items : items[k].st \in {"fetch", "sleep"}}

\* A retry loop that goes round once more.
AfterFailureOneMore(item, kind) ==
    IF item.attempt <= MaxRetries THEN [item EXCEPT !.st = "sleep"]
    ELSE [item EXCEPT !.st = "raised", !.err = kind]

\* Lines 252-258: a failed attempt is followed by a sleep and another
\* attempt, the last one by re-raising.
AfterFailure(item, kind) ==
    IF item.attempt < MaxRetries THEN [item EXCEPT !.st = "sleep"]
    ELSE [item EXCEPT !.st = "raised", !.err = kind]

(* ------------------------------ tasks.py ------------------------------- *)
\* Task.__init__: a task starts queued, with no timestamps, results or error.
NewTask(n, settings, config_name, image_data) ==
    [status |-> QUEUED, n |-> n, started_at |-> NullTime, finished_at |-> NullTime,
     results |-> << >>, error |-> NoneVal, settings |-> settings,
     config_name |-> config_name, image_data |-> image_data]

\* A worker coroutine: where it is suspended, the task it holds, and the
\* future of its generation call (asyncio.to_thread).
\*   st = "new"  created, not yet scheduled     st = "get"  awaiting queue.get()
\*   st = "gen"  awaiting the generation call   st = "done" returned
NoFut == [kind |-> "none", files |-> << >>, text |-> NoneVal]
PendingFut == [kind |-> "pending", files |-> << >>, text |-> NoneVal]
NewWorker == [st |-> "new", task |-> 0, fut |-> NoFut]

\* start_workers with range(max_concurrent + 1).
NewWorkersOneMore(n) == [i \in 1..(n + 1) |-> NewWorker]

\* start_workers: one worker per unit of max_concurrent.
NewWorkers(n) == [i \in 1..n |-> NewWorker]

\* The file names a successful call for task t returns, suffixes 1..k.
Filenames(t, k) == [i \in 1..k |-> <<t, i>>]

\* A get that leaves the id in the queue, and a put at the front.
QueueRestKept(q) == q
QueuePutFront(q, task_id) == <<task_id>> \o q

\* asyncio.Queue: get takes the oldest id, put appends.
QueueFront(q) == Head(q)
QueueRest(q) == Tail(q)
QueuePut(q, task_id) == Append(q, task_id)

\* The dequeued task stamped but left queued.
MarkRunningNoStatus(task, now) == [task EXCEPT !.started_at = now]

\* Lines 100-102: the dequeued task becomes running and is stamped.
MarkRunning(task, now) == [task EXCEPT !.status = RUNNING, !.started_at = now]

\* Results stored without the status, and an exception not recorded.
OnGenSuccessKeepsStatus(task, files) == [task EXCEPT !.results = files]
OnGenExceptionIgnored(task, text) == task

\* Lines 126-128 and 132-134: the outcome of the generation call on the task.
OnGenSuccess(task, files) == [task EXCEPT !.results = files, !.status = SUCCEEDED]
OnGenException(task, text) == [task EXCEPT !.status = FAILED, !.error = text]

\* A worker that leaves its loop after a task that raised.
LoopContinuesAfterSuccess(kind) == kind = "ok"

\* Whether the worker loop goes round again after a task that ended with
\* the given outcome ("ok" or "exc"): the inner handler swallows every
\* Exception, so it always does.
LoopContinues(kind) == TRUE

\* A broadcast coroutine (_broadcast_task_update) for a task:
\*   st = "new"    created, not yet scheduled
\*   st = "wait"   waiting for _broadcast_lock
\*   st = "woken"  handed the lock by its release, not yet resumed
\*   st = "send"   in the loop, awaiting send_text to client cur; res is
\*                 "pending" until the send has returned ("ok") or raised ("exc")
\* at is the status the task had when _schedule_broadcast was called,
\* message is the snapshot taken before the lock, start the client set as
\* the loop's iterator found it, visited the clients the iterator has
\* yielded, got the sends that returned (client and message), failed the
\* set `disconnected`.
NoMessage == [task |-> 0, status |-> NoneVal]
NewBroadcast(task_id, status) ==
    [task |-> task_id, at |-> status, st |-> "new", message |-> NoMessage, cur |-> NoneVal,
     res |-> NoneVal,
     start |-> {}, visited |-> {}, got |-> {}, failed |-> {}]

\* _schedule_broadcast: nothing is created while no client is connected.
schedule_broadcast(bt, task_id, status) ==
    IF websocket_clients = {} THEN bt ELSE Append(bt, NewBroadcast(task_id, status))

RECURSIVE ScheduleAll(_, _)
ScheduleAll(bt, ids) ==
    IF ids = << >> THEN bt
    ELSE ScheduleAll(schedule_broadcast(bt, Head(ids), QUEUED), Tail(ids))

\* The part of the state a worker step reads and writes.
Mem == [tasks |-> tasks, queue |-> queue, running |-> running_tasks,
        db |-> db, started |-> start_log, w |-> NewWorker,
        bt |-> broadcast_tasks, images |-> images]

\* The worker loop from its head (line 88) to the next suspension point:
\* unknown ids are dropped, an empty queue suspends the worker in get, and
\* the first known id is marked running, stamped and persisted (lines 90-108)
\* before the worker suspends in the generation call (line 114).
RECURSIVE WorkerLoop(_, _)
WorkerLoop(S, alive) ==
    IF ~alive THEN [S EXCEPT !.w = [st |-> "done", task |-> 0, fut |-> NoFut]]
    ELSE IF S.queue = << >> THEN [S EXCEPT !.w = [st |-> "get", task |-> 0, fut |-> NoFut]]
    ELSE LET task_id == QueueFront(S.queue)
             rest == QueueRest(S.queue)
         IN IF task_id \notin DOMAIN S.tasks
            THEN WorkerLoop([S EXCEPT !.queue = rest], alive)
            ELSE LET task == MarkRunning(S.tasks[task_id], Now)
                 IN [tasks |-> [S.tasks EXCEPT ![task_id] = task],
                     bt |-> schedule_broadcast(S.bt, task_id, task.status),
                     images |-> S.images,
                     queue |-> rest,
                     running |-> S.running \cup {task_id},
                     db |-> update_task_status(S.db, task_id, RUNNING,
                                task.started_at, NullTime, NullResults, NoneVal),
                     started |-> Append(S.started, task_id),
                     w |-> [st |-> "gen", task |-> task_id, fut |-> PendingFut]]

\* Lines 112-154 from the point the generation call ends: the file names
\* of a call that returned are registered, the outcome is recorded on the
\* task (a cancellation records nothing), then the finally block stamps
\* finished_at, persists and releases the id.
FinishTask(S, task_id, fut) ==
    LET t0 == S.tasks[task_id]
        t1 == IF fut.kind = "ok" THEN OnGenSuccess(t0, fut.files)
              ELSE IF fut.kind = "exc" THEN OnGenException(t0, fut.text)
              ELSE t0
        t2 == [t1 EXCEPT !.finished_at = Now]
    IN [S EXCEPT
          !.tasks = [S.tasks EXCEPT ![task_id] = t2],
          !.db = update_task_status(S.db, task_id, t2.status, NullTime,
                    t2.finished_at,
                    IF t2.results # << >> THEN t2.results ELSE NullResults,
                    t2.error),
          !.images = IF fut.kind = "ok" THEN insert_images(S.images, fut.files)
                     ELSE S.images,
          !.bt = schedule_broadcast(S.bt, task_id, t2.status),
          !.running = S.running \ {task_id}]

\* requeue_pending_tasks, lines 206-240, over the rows list_tasks_by_status
\* returned: rows already resident or without usable settings are skipped.
\* The task is rebuilt from the row, which has no image_data column.
ResidentNever(T, task_id) == FALSE
Resident(T, task_id) == task_id \in DOMAIN T

RECURSIVE RequeueRows(_, _, _, _, _, _)
RequeueRows(rows, D, file, T, Q, L) ==
    IF rows = << >> THEN [tasks |-> T, queue |-> Q, log |-> L]
    ELSE LET task_id == Head(rows)
             config_name == D[task_id].config_name
             idx == select_config(file, config_name)
             settings == MakeSettings(file.api_configs[idx], file)
         IN IF Resident(T, task_id) \/ idx = 0 \/ ~SettingsUsable(settings)
            THEN RequeueRows(Tail(rows), D, file, T, Q, L)
            ELSE RequeueRows(Tail(rows), D, file,
                    [t \in DOMAIN T \cup {task_id} |->
                        IF t = task_id
                        THEN NewTask(D[task_id].n, settings, config_name, NoneVal)
                        ELSE T[t]],
                    QueuePut(Q, task_id), Append(L, task_id))

requeue_pending_tasks(D, file, T, Q, L) ==
    RequeueRows(list_tasks_by_status(D, QUEUED), D, file, T, Q, L)

(* ------------------------------- actions ------------------------------- *)
\* TaskQueue.__init__ (tasks.py:59-68, 324).
DefaultMaxConcurrent == 2

InitQueue ==
    /\ phase = "start"
    /\ epoch = 0
    /\ db = << >>
    /\ tasks = << >>
    /\ queue = << >>
    /\ running_tasks = {}
    /\ worker_tasks = << >>
    /\ is_running = FALSE
    /\ max_concurrent = DefaultMaxConcurrent
    /\ pool_size = 0
    /\ put_log = << >>
    /\ start_log = << >>
    /\ reset_count = 0
    /\ requeue_file = NoFile
    /\ websocket_clients = {}
    /\ ws_handlers = [c \in Clients |-> "idle"]
    /\ broadcast_tasks = << >>
    /\ images = {}
    /\ gen_call = NoCall
    /\ post_answer = NoAnswer

Init == InitQueue /\ fetched = NoFetch

\* The extension of a response is determined (client.py:229-236).
DetermineExt ==
    /\ fetched.image_url # << >>
    /\ fetched.ext = NoneVal
    /\ fetched' = [fetched EXCEPT !.ext = ext(fetched.content_type, fetched.image_url)]
    /\ UNCHANGED <<phase, epoch, db, memvars, reset_count, requeue_file, obsvars,
                   genvars, post_answer>>

\* startup_event with start_workers called ahead of the recovery steps.
Startup_ResetWithWorkers ==
    /\ phase = "start"
    /\ phase' = "reset"
    /\ db' = reset_running_tasks_to_queued(db, NoneVal)
    /\ reset_count' = ResetRowcount(db)
    /\ is_running' = TRUE
    /\ worker_tasks' = NewWorkers(max_concurrent)
    /\ pool_size' = max_concurrent
    /\ UNCHANGED <<epoch, tasks, queue, running_tasks, max_concurrent, put_log,
                   start_log, requeue_file, obsvars, genvars, auxvars>>

\* startup_event, app.py:93.
Startup_Reset ==
    /\ phase = "start"
    /\ phase' = "reset"
    /\ db' = reset_running_tasks_to_queued(db, NoneVal)
    /\ reset_count' = ResetRowcount(db)
    /\ UNCHANGED <<epoch, memvars, requeue_file, obsvars, genvars, auxvars>>

\* startup_event, app.py:96, with the configuration file as it is then.
Startup_Requeue(file) ==
    /\ phase = "reset"
    /\ phase' = "requeued"
    /\ LET r == requeue_pending_tasks(db, file, tasks, queue, put_log)
       IN /\ tasks' = r.tasks
          /\ queue' = r.queue
          /\ put_log' = r.log
          /\ broadcast_tasks' = ScheduleAll(broadcast_tasks,
                                    SubSeq(r.log, Len(put_log) + 1, Len(r.log)))
    /\ requeue_file' = file
    /\ UNCHANGED <<epoch, db, running_tasks, worker_tasks, is_running,
                   max_concurrent, pool_size, start_log, reset_count,
                   websocket_clients, ws_handlers, genvars, auxvars>>

\* startup_event, app.py:99-100: set_max_concurrent(get_max_concurrent())
\* and start_workers.
Startup_StartWorkers(file) ==
    /\ phase = "requeued"
    /\ phase' = "serving"
    /\ LET mc == Max(1, get_max_concurrent(file))
       IN /\ max_concurrent' = mc
          /\ IF ~is_running
             THEN /\ is_running' = TRUE
                  /\ worker_tasks' = worker_tasks \o NewWorkers(mc)
                  /\ pool_size' = mc
             ELSE UNCHANGED <<is_running, worker_tasks, pool_size>>
    /\ reset_count' = 0
    /\ requeue_file' = NoFile
    /\ UNCHANGED <<epoch, db, tasks, queue, running_tasks, put_log, start_log,
                   obsvars, genvars, auxvars>>

\* The validation of app.py:161-163 left out.
RefImageNeedsOneNever(n, image_data) == FALSE

\* app.py:161-163: a reference image goes with n = 1 only.
RefImageNeedsOne(n, image_data) == image_data # NoneVal /\ n # 1

\* The status code POST /api/tasks answers with (app.py:158-174, 200).
StatusCode(config_name, file, n, image_data) ==
    LET idx == select_config(file, config_name)
    IN IF idx = 0 THEN 400
       ELSE IF RefImageNeedsOne(n, image_data) THEN 400
       ELSE IF ~SettingsUsable(MakeSettings(file.api_configs[idx], file)) THEN 500
       ELSE 200

\* The id Task.__init__ gives the next task (a uuid4; the model numbers the
\* tasks in the order they are created).
NextTaskId == Cardinality(DOMAIN db) + 1

\* POST /api/tasks (app.py:143-203) and TaskQueue.create_task, on the task
\* queue and the table: a request that is answered with an error changes
\* nothing.
create_task(config_name, file, n, image_data) ==
    LET idx == select_config(file, config_name)
        settings == MakeSettings(file.api_configs[idx], file)
        task_id == NextTaskId
    IN IF StatusCode(config_name, file, n, image_data) # 200
       THEN UNCHANGED <<phase, epoch, db, memvars, reset_count, requeue_file,
                        obsvars, genvars, fetched>>
       ELSE /\ tasks' = [t \in DOMAIN tasks \cup {task_id} |->
                           IF t = task_id
                           THEN NewTask(n, settings, config_name, image_data)
                           ELSE tasks[t]]
            /\ db' = insert_task(db, task_id, QUEUED, n, config_name, Now)
            /\ queue' = QueuePut(queue, task_id)
            /\ put_log' = Append(put_log, task_id)
            /\ broadcast_tasks' = schedule_broadcast(broadcast_tasks, task_id, QUEUED)
            /\ UNCHANGED <<phase, epoch, running_tasks, worker_tasks, is_running,
                           max_concurrent, pool_size, start_log, reset_count,
                           requeue_file, websocket_clients, ws_handlers, genvars,
                           fetched>>

CreateTask(config_name, file, n, image_data) ==
    /\ phase = "serving"
    /\ Cardinality(DOMAIN db) < MaxTasks
    /\ create_task(config_name, file, n, image_data)
    /\ UNCHANGED post_answer

\* The same request followed to its answer: the name of the entry
\* select_config returned (None when it returned none), the status code,
\* and for a created task its id and the settings built for it.
PostTask(config_name, file, n, image_data) ==
    /\ phase = "serving"
    /\ Cardinality(DOMAIN db) < MaxTasks
    /\ create_task(config_name, file, n, image_data)
    /\ LET code == StatusCode(config_name, file, n, image_data)
           idx == select_config(file, config_name)
       IN post_answer' =
            [n |-> n, image_data |-> image_data, code |-> code,
             config |-> IF idx = 0 THEN NoneVal ELSE file.api_configs[idx].name,
             task_id |-> IF code = 200 THEN NextTaskId ELSE 0,
             settings |-> IF code = 200 THEN MakeSettings(file.api_configs[idx], file)
                          ELSE NoSettings]

\* A worker step ends with the worker record S.w stored for worker i.
Commit(i, S) ==
    /\ tasks' = S.tasks
    /\ queue' = S.queue
    /\ running_tasks' = S.running
    /\ db' = S.db
    /\ start_log' = S.started
    /\ worker_tasks' = [worker_tasks EXCEPT ![i] = S.w]
    /\ broadcast_tasks' = S.bt
    /\ images' = S.images
    /\ UNCHANGED <<phase, epoch, is_running, max_concurrent, pool_size, put_log,
                   reset_count, requeue_file, websocket_clients, ws_handlers, gen_call,
                   auxvars>>

\* The event loop runs a new worker for the first time.
WorkerBegin(i) ==
    /\ i \in DOMAIN worker_tasks
    /\ worker_tasks[i].st = "new"
    /\ Commit(i, WorkerLoop(Mem, is_running))

\* queue.get() returns to a waiting worker.
WorkerWake(i) ==
    /\ i \in DOMAIN worker_tasks
    /\ worker_tasks[i].st = "get"
    /\ queue # << >>
    /\ Commit(i, WorkerLoop(Mem, is_running))

\* The generation call of worker i returns k file names in its thread.
GenReturn(i, k) ==
    /\ i \in DOMAIN worker_tasks
    /\ worker_tasks[i].st = "gen"
    /\ worker_tasks[i].fut.kind = "pending"
    /\ worker_tasks' = [worker_tasks EXCEPT ![i].fut =
            [kind |-> "ok", files |-> Filenames(worker_tasks[i].task, k), text |-> NoneVal]]
    /\ UNCHANGED <<phase, epoch, db, tasks, queue, running_tasks, is_running,
                   max_concurrent, pool_size, put_log, start_log, reset_count,
                   requeue_file, obsvars, genvars, auxvars>>

\* The generation call of worker i raises an exception whose text is e.
GenRaise(i, e) ==
    /\ i \in DOMAIN worker_tasks
    /\ worker_tasks[i].st = "gen"
    /\ worker_tasks[i].fut.kind = "pending"
    /\ worker_tasks' = [worker_tasks EXCEPT ![i].fut =
            [kind |-> "exc", files |-> << >>, text |-> e]]
    /\ UNCHANGED <<phase, epoch, db, tasks, queue, running_tasks, is_running,
                   max_concurrent, pool_size, put_log, start_log, reset_count,
                   requeue_file, obsvars, genvars, auxvars>>

\* The worker resumes from the generation call with its outcome, finishes
\* the task and goes round the loop.
WorkerResume(i) ==
    /\ i \in DOMAIN worker_tasks
    /\ worker_tasks[i].st = "gen"
    /\ worker_tasks[i].fut.kind \in {"ok", "exc"}
    /\ LET w == worker_tasks[i]
           S == FinishTask(Mem, w.task, w.fut)
       IN Commit(i, WorkerLoop(S, is_running /\ LoopContinues(w.fut.kind)))

\* Lines 90-105 when update_task_status raises at line 105 (sqlite3 raises
\* on a locked or unreachable database, and db.py catches nothing): the
\* task is already in the running set, marked and stamped; nothing is
\* persisted or broadcast.
RunningWriteFails(S) ==
    LET task_id == QueueFront(S.queue)
    IN [S EXCEPT
          !.tasks = [S.tasks EXCEPT ![task_id] = MarkRunning(S.tasks[task_id], Now)],
          !.queue = QueueRest(S.queue),
          !.running = S.running \cup {task_id},
          !.started = Append(S.started, task_id)]

\* A worker dequeues a task and the write of the running state raises: the
\* exception leaves the loop body before the inner try (line 112), the outer
\* handler (lines 158-159) logs it and the loop goes round.
RunningWriteRaises(i) ==
    /\ i \in DOMAIN worker_tasks
    /\ worker_tasks[i].st \in {"new", "get"}
    /\ is_running
    /\ queue # << >>
    /\ QueueFront(queue) \in DOMAIN tasks
    /\ Commit(i, WorkerLoop(RunningWriteFails(Mem), is_running))

\* Lines 112-147 when update_task_status raises at line 141: the outcome is
\* on the task and the file names of a call that returned are registered,
\* the rest of the finally block (lines 149-154) is not run.
TerminalWriteFails(S, task_id, fut) ==
    LET t0 == S.tasks[task_id]
        t1 == IF fut.kind = "ok" THEN OnGenSuccess(t0, fut.files)
              ELSE OnGenException(t0, fut.text)
        t2 == [t1 EXCEPT !.finished_at = Now]
    IN [S EXCEPT
          !.tasks = [S.tasks EXCEPT ![task_id] = t2],
          !.images = IF fut.kind = "ok" THEN insert_images(S.images, fut.files)
                     ELSE S.images]

\* The worker resumes from the generation call and the write of the
\* terminal state raises; the outer handler logs it and the loop goes round.
TerminalWriteRaises(i) ==
    /\ i \in DOMAIN worker_tasks
    /\ worker_tasks[i].st = "gen"
    /\ worker_tasks[i].fut.kind \in {"ok", "exc"}
    /\ LET w == worker_tasks[i]
       IN Commit(i, WorkerLoop(TerminalWriteFails(Mem, w.task, w.fut), is_running))

\* Lines 112-154 when insert_image raises on the k-th file name of a call
\* that returned (line 124): the file names before it are registered, the
\* inner handler records the exception on the task and the finally block
\* runs as after a call that raised.
ImageWriteFails(S, task_id, fut, k, text) ==
    LET R == FinishTask(S, task_id, [kind |-> "exc", files |-> << >>, text |-> text])
    IN [R EXCEPT !.images = insert_images(S.images, SubSeq(fut.files, 1, k - 1))]

\* The worker resumes from a generation call that returned and insert_image
\* raises on the k-th file name.
ImageWriteRaises(i, k, text) ==
    /\ i \in DOMAIN worker_tasks
    /\ worker_tasks[i].st = "gen"
    /\ worker_tasks[i].fut.kind = "ok"
    /\ k \in DOMAIN worker_tasks[i].fut.files
    /\ LET w == worker_tasks[i]
       IN Commit(i, WorkerLoop(ImageWriteFails(Mem, w.task, w.fut, k, text), is_running))

\* stop_workers, cancelling worker i onwards in list order: a worker in
\* the generation call runs its finally block with the task as it is.
RECURSIVE CancelFrom(_, _)
CancelFrom(S, i) ==
    IF i > Len(worker_tasks) THEN S
    ELSE LET w == worker_tasks[i]
         IN CancelFrom(IF w.st = "gen"
                       THEN FinishTask(S, w.task, [w.fut EXCEPT !.kind = "cancelled"])
                       ELSE S,
                       i + 1)

\* stop_workers without lines 269-271: the broadcast coroutines live on.
StopWorkersKeepsBroadcasts ==
    /\ phase = "serving"
    /\ phase' = "stopped"
    /\ is_running' = FALSE
    /\ LET S == CancelFrom(Mem, 1)
       IN /\ tasks' = S.tasks
          /\ db' = S.db
          /\ running_tasks' = S.running
          /\ broadcast_tasks' = S.bt
    /\ worker_tasks' = << >>
    /\ UNCHANGED <<epoch, queue, max_concurrent, pool_size, put_log, start_log,
                   reset_count, requeue_file, websocket_clients, ws_handlers, genvars, auxvars>>

\* shutdown_event (app.py:104-109) and TaskQueue.stop_workers: the workers
\* are cancelled and awaited, then every broadcast coroutine is cancelled.
StopWorkers ==
    /\ phase = "serving"
    /\ phase' = "stopped"
    /\ is_running' = FALSE
    /\ LET S == CancelFrom(Mem, 1)
       IN /\ tasks' = S.tasks
          /\ db' = S.db
          /\ running_tasks' = S.running
    /\ worker_tasks' = << >>
    /\ broadcast_tasks' = << >>
    /\ UNCHANGED <<epoch, queue, max_concurrent, pool_size, put_log, start_log,
                   reset_count, requeue_file, websocket_clients, ws_handlers, genvars, auxvars>>

\* POST /api/config/concurrent (app.py:241-245) and set_max_concurrent.
SetConcurrent(n) ==
    /\ phase = "serving"
    /\ Max(1, n) # max_concurrent
    /\ max_concurrent' = Max(1, n)
    /\ UNCHANGED <<phase, epoch, db, tasks, queue, running_tasks, worker_tasks,
                   is_running, pool_size, put_log, start_log, reset_count,
                   requeue_file, obsvars, genvars, auxvars>>

\* start_workers without its is_running test.
StartWorkersUnguarded ==
    /\ phase \in {"serving", "stopped"}
    /\ phase' = "serving"
    /\ is_running' = TRUE
    /\ worker_tasks' = worker_tasks \o NewWorkers(max_concurrent)
    /\ pool_size' = Len(worker_tasks) + max_concurrent
    /\ UNCHANGED <<epoch, db, tasks, queue, running_tasks, max_concurrent, put_log,
                   start_log, reset_count, requeue_file, obsvars, genvars, auxvars>>

\* TaskQueue.start_workers (tasks.py:75-83) called on a task queue that has
\* been started before: nothing happens while the pool is running; after
\* stop_workers a new pool of max_concurrent workers is built.
StartWorkers ==
    /\ phase \in {"serving", "stopped"}
    /\ phase' = "serving"
    /\ IF ~is_running
       THEN /\ is_running' = TRUE
            /\ worker_tasks' = worker_tasks \o NewWorkers(max_concurrent)
            /\ pool_size' = max_concurrent
       ELSE UNCHANGED <<is_running, worker_tasks, pool_size>>
    /\ UNCHANGED <<epoch, db, tasks, queue, running_tasks, max_concurrent, put_log,
                   start_log, reset_count, requeue_file, obsvars, genvars, auxvars>>

\* The process ends (exit after shutdown, or a kill at any point) and a
\* new one is launched: memory is as constructed, the table is kept.
Restart ==
    /\ epoch < MaxRestarts
    /\ epoch' = epoch + 1
    /\ phase' = "start"
    /\ tasks' = << >>
    /\ queue' = << >>
    /\ running_tasks' = {}
    /\ worker_tasks' = << >>
    /\ is_running' = FALSE
    /\ max_concurrent' = DefaultMaxConcurrent
    /\ pool_size' = 0
    /\ put_log' = << >>
    /\ start_log' = << >>
    /\ reset_count' = 0
    /\ requeue_file' = NoFile
    /\ websocket_clients' = {}
    /\ ws_handlers' = [c \in Clients |-> "idle"]
    /\ broadcast_tasks' = << >>
    /\ gen_call' = NoCall
    /\ UNCHANGED <<db, images, auxvars>>

\* requeue_pending_tasks called again while the process serves (the
\* application calls it at startup only).
RequeueAgain(file) ==
    /\ phase = "serving"
    /\ LET r == requeue_pending_tasks(db, file, tasks, queue, put_log)
       IN /\ tasks' = r.tasks
          /\ queue' = r.queue
          /\ put_log' = r.log
          /\ broadcast_tasks' = ScheduleAll(broadcast_tasks,
                                    SubSeq(r.log, Len(put_log) + 1, Len(r.log)))
    /\ UNCHANGED <<phase, epoch, db, running_tasks, worker_tasks, is_running,
                   max_concurrent, pool_size, start_log, reset_count, requeue_file,
                   websocket_clients, ws_handlers, genvars, auxvars>>

\* websocket_tasks (app.py:212-238): a connection is accepted and added to
\* the client set, and its initial_tasks message is sent without the send
\* suspending; when the connection ends, the handler's finally removes it.
Connect(c) ==
    /\ phase = "serving"
    /\ ws_handlers[c] = "idle"
    /\ \A k \in DOMAIN ClientOrder :
          ClientOrder[k] = c => \A j \in 1..(k - 1) : ws_handlers[ClientOrder[j]] # "idle"
    /\ ws_handlers' = [ws_handlers EXCEPT ![c] = "open"]
    /\ websocket_clients' = websocket_clients \cup {c}
    /\ UNCHANGED <<phase, epoch, db, memvars, reset_count, requeue_file,
                   broadcast_tasks, genvars, auxvars>>

Disconnect(c) ==
    /\ ws_handlers[c] = "open"
    /\ ws_handlers' = [ws_handlers EXCEPT ![c] = "closed"]
    /\ websocket_clients' = websocket_clients \ {c}
    /\ UNCHANGED <<phase, epoch, db, memvars, reset_count, requeue_file,
                   broadcast_tasks, genvars, auxvars>>

\* websocket_tasks up to the point where send_json of the initial_tasks
\* message suspends (app.py:214-224): the connection is in the client set
\* (line 215) before the message is built and its send awaited.
ConnectAwaitsInitial(c) ==
    /\ phase = "serving"
    /\ ws_handlers[c] = "idle"
    /\ \A k \in DOMAIN ClientOrder :
          ClientOrder[k] = c => \A j \in 1..(k - 1) : ws_handlers[ClientOrder[j]] # "idle"
    /\ ws_handlers' = [ws_handlers EXCEPT ![c] = "initial"]
    /\ websocket_clients' = websocket_clients \cup {c}
    /\ UNCHANGED <<phase, epoch, db, memvars, reset_count, requeue_file,
                   broadcast_tasks, genvars, auxvars>>

\* The send of the initial_tasks message returns and the handler goes on
\* to its receive loop (lines 227-230).
InitialSent(c) ==
    /\ ws_handlers[c] = "initial"
    /\ ws_handlers' = [ws_handlers EXCEPT ![c] = "open"]
    /\ UNCHANGED <<phase, epoch, db, memvars, reset_count, requeue_file,
                   websocket_clients, broadcast_tasks, genvars, auxvars>>

\* The send of the initial_tasks message raises: the handler's finally
\* removes the connection (lines 232-238).
InitialRaises(c) ==
    /\ ws_handlers[c] = "initial"
    /\ ws_handlers' = [ws_handlers EXCEPT ![c] = "closed"]
    /\ websocket_clients' = websocket_clients \ {c}
    /\ UNCHANGED <<phase, epoch, db, memvars, reset_count, requeue_file,
                   broadcast_tasks, genvars, auxvars>>

\* A lock that is never found taken.
LockBusyNever(bt) == FALSE

\* asyncio.Lock.acquire returns at once only when the lock is neither held
\* nor promised to a waiter.
LockBusy(bt) == \E j \in DOMAIN bt : bt[j].st \in {"wait", "woken", "send"}

RemoveAt(bt, i) == SubSeq(bt, 1, i - 1) \o SubSeq(bt, i + 1, Len(bt))

\* asyncio.Lock.release wakes the longest-waiting coroutine.
WakeFirst(bt) ==
    IF \E j \in DOMAIN bt : bt[j].st = "wait"
    THEN LET first == CHOOSE j \in DOMAIN bt :
                        /\ bt[j].st = "wait"
                        /\ \A k \in DOMAIN bt : bt[k].st = "wait" => j <= k
         IN [bt EXCEPT ![first].st = "woken"]
    ELSE bt

\* json.dumps of task.to_dict(), lines 303-306.
Snapshot(task_id) == [task |-> task_id, status |-> tasks[task_id].status]

\* Broadcast i leaves its loop: normally (how = "ok") the clients in
\* `disconnected` are discarded (lines 319-320); then the lock is released
\* and the done callback drops the coroutine from _broadcast_tasks.
LeaveLoop(i, b, how) ==
    /\ websocket_clients' = IF how = "ok" THEN websocket_clients \ b.failed
                            ELSE websocket_clients
    /\ broadcast_tasks' = WakeFirst(RemoveAt(broadcast_tasks, i))


\* `for client in self.websocket_clients` asks its iterator for the next
\* client: RuntimeError when the set has changed size since the loop
\* began; otherwise a client still in the set and not yet yielded (nxt), in
\* the set's order, which the program does not control; the loop ends
\* (nxt = NoneVal) when none of the clients it began with is left to yield.
\* A client added meanwhile may or may not be yielded.
LoopStep(i, b, nxt) ==
    LET candidates == websocket_clients \ b.visited
    IN IF Cardinality(websocket_clients) # Cardinality(b.start)
       THEN nxt = NoneVal /\ LeaveLoop(i, b, "error")
       ELSE IF nxt = NoneVal
       THEN candidates \cap b.start = {} /\ LeaveLoop(i, b, "ok")
       ELSE /\ nxt \in candidates
            /\ broadcast_tasks' = [broadcast_tasks EXCEPT ![i] =
                    [b EXCEPT !.cur = nxt, !.res = "pending",
                              !.visited = @ \cup {nxt}]]
            /\ UNCHANGED websocket_clients

\* The lock is taken and the loop entered (lines 308-311).
EnterLoop(i, b, nxt) ==
    LoopStep(i, [b EXCEPT !.st = "send", !.start = websocket_clients], nxt)

\* The event loop runs a broadcast coroutine for the first time;
\* coroutines start in the order they were created.
BroadcastBegin(i, nxt) ==
    /\ i \in DOMAIN broadcast_tasks
    /\ broadcast_tasks[i].st = "new"
    /\ \A j \in 1..(i - 1) : broadcast_tasks[j].st # "new"
    /\ IF websocket_clients = {}
       THEN /\ nxt = NoneVal
            /\ broadcast_tasks' = RemoveAt(broadcast_tasks, i)
            /\ UNCHANGED websocket_clients
       ELSE LET b == [broadcast_tasks[i] EXCEPT
                        !.message = Snapshot(broadcast_tasks[i].task)]
            IN IF LockBusy(broadcast_tasks)
               THEN /\ nxt = NoneVal
                    /\ broadcast_tasks' = [broadcast_tasks EXCEPT ![i] =
                                              [b EXCEPT !.st = "wait"]]
                    /\ UNCHANGED websocket_clients
               ELSE EnterLoop(i, b, nxt)
    /\ UNCHANGED <<phase, epoch, db, memvars, reset_count, requeue_file, ws_handlers, genvars, auxvars>>

\* A coroutine that waited for the lock resumes with it.
BroadcastWake(i, nxt) ==
    /\ i \in DOMAIN broadcast_tasks
    /\ broadcast_tasks[i].st = "woken"
    /\ EnterLoop(i, broadcast_tasks[i], nxt)
    /\ UNCHANGED <<phase, epoch, db, memvars, reset_count, requeue_file, ws_handlers, genvars, auxvars>>

\* send_text to the current client returns (line 313), or raises.
SendReturn(i) ==
    /\ i \in DOMAIN broadcast_tasks
    /\ broadcast_tasks[i].st = "send" /\ broadcast_tasks[i].res = "pending"
    /\ broadcast_tasks' = [broadcast_tasks EXCEPT ![i].res = "ok"]
    /\ UNCHANGED <<phase, epoch, db, memvars, reset_count, requeue_file,
                   websocket_clients, ws_handlers, genvars, auxvars>>

SendRaise(i) ==
    /\ i \in DOMAIN broadcast_tasks
    /\ broadcast_tasks[i].st = "send" /\ broadcast_tasks[i].res = "pending"
    /\ broadcast_tasks' = [broadcast_tasks EXCEPT ![i].res = "exc"]
    /\ UNCHANGED <<phase, epoch, db, memvars, reset_count, requeue_file,
                   websocket_clients, ws_handlers, genvars, auxvars>>

\* The outcome of the send on the coroutine: a client whose send raised
\* goes to `disconnected` (lines 314-316).
AfterSend(b) ==
    IF b.res = "ok" THEN [b EXCEPT !.got = @ \cup {<<b.cur, b.message>>}]
    ELSE [b EXCEPT !.failed = @ \cup {b.cur}]

\* The coroutine resumes from the send and goes round its loop.
BroadcastResume(i, nxt) ==
    /\ i \in DOMAIN broadcast_tasks
    /\ broadcast_tasks[i].st = "send"
    /\ broadcast_tasks[i].res \in {"ok", "exc"}
    /\ LoopStep(i, AfterSend(broadcast_tasks[i]), nxt)
    /\ UNCHANGED <<phase, epoch, db, memvars, reset_count, requeue_file, ws_handlers, genvars, auxvars>>

\* The thread of worker i's generation call starts generate_images; one call
\* is followed at a time.
GenStart(i) ==
    /\ i \in DOMAIN worker_tasks
    /\ worker_tasks[i].st = "gen"
    /\ worker_tasks[i].fut.kind = "pending"
    /\ gen_call = NoCall
    /\ gen_call' = [owner |-> i,
                    img2img |-> tasks[worker_tasks[i].task].image_data # NoneVal,
                    stage |-> "post1", data |-> << >>, items |-> << >>]
    /\ UNCHANGED <<phase, epoch, db, memvars, reset_count, requeue_file, obsvars, images,
                   auxvars>>

\* generate_images returns or raises: asyncio.run ends, cancelling what is
\* left of the call, and the future of the worker's to_thread is set.
CallEnds(fut) ==
    /\ gen_call' = NoCall
    /\ worker_tasks' =
          IF /\ gen_call.owner \in DOMAIN worker_tasks
             /\ worker_tasks[gen_call.owner].st = "gen"
             /\ worker_tasks[gen_call.owner].fut.kind = "pending"
          THEN [worker_tasks EXCEPT ![gen_call.owner].fut = fut]
          ELSE worker_tasks
    /\ UNCHANGED <<phase, epoch, db, tasks, queue, running_tasks, is_running,
                   max_concurrent, pool_size, put_log, start_log, reset_count,
                   requeue_file, obsvars, images, auxvars>>

CallReturns(files) == CallEnds([kind |-> "ok", files |-> files, text |-> NoneVal])
CallRaises(text) == CallEnds([kind |-> "exc", files |-> << >>, text |-> text])

CallGoesOn(stage, items) ==
    /\ gen_call' = [gen_call EXCEPT !.stage = stage, !.items = items,
                                    !.data = [k \in DOMAIN items |-> items[k].url]]
    /\ UNCHANGED <<phase, epoch, db, memvars, reset_count, requeue_file, obsvars, images,
                   auxvars>>

\* The task of the call in flight.
CallTask == worker_tasks[gen_call.owner].task

\* The POST returns (client.py:76-108 and 138-149): a data list of n
\* entries with b64_json ("b64") or with url ("url"; for image_data, n URLs
\* found in the content), a status error ("http_error"), or anything else
\* ("error": a timeout, no data, no URL).
PostResponds(shape, n) ==
    /\ gen_call.stage \in {"post1", "post2"}
    /\ IF shape = "url"
       THEN CallGoesOn(IF gen_call.stage = "post1" THEN "batch1" ELSE "batch2",
                       Downloads(UrlData(n)))
       ELSE IF shape = "b64" /\ gen_call.stage = "post1" /\ ~gen_call.img2img
       THEN CallReturns(CallFiles(CallTask, "post1", n))
       ELSE IF shape = "http_error" /\ gen_call.stage = "post1" /\ ~gen_call.img2img
       THEN CallGoesOn("post2", << >>)
       ELSE IF shape = "http_error"
       THEN CallRaises("HTTP 500")
       ELSE IF shape = "error" THEN CallRaises("")
       ELSE CallRaises("no image")

\* A waiting download enters the semaphore, in the order the downloads
\* were created, and starts its first attempt.
ItemAcquire(k) ==
    /\ k \in DOMAIN gen_call.items
    /\ gen_call.items[k].st = "sem"
    /\ \A j \in 1..(k - 1) : gen_call.items[j].st # "sem"
    /\ Cardinality(Holding(gen_call.items)) < DownloadConcurrency
    /\ CallGoesOn(gen_call.stage,
                  [gen_call.items EXCEPT ![k] = [@ EXCEPT !.st = "fetch", !.attempt = 1]])

\* An attempt succeeds: the file is written and the semaphore released.
FetchOk(k) ==
    /\ k \in DOMAIN gen_call.items
    /\ gen_call.items[k].st = "fetch"
    /\ CallGoesOn(gen_call.stage,
                  [gen_call.items EXCEPT ![k] =
                      [@ EXCEPT !.st = "done",
                                !.rank = 1 + Cardinality({j \in DOMAIN gen_call.items :
                                                gen_call.items[j].st = "done"})]])

\* An attempt raises, HTTPStatusError or another exception.
FetchFail(k, kind) ==
    /\ k \in DOMAIN gen_call.items
    /\ gen_call.items[k].st = "fetch"
    /\ CallGoesOn(gen_call.stage,
                  [gen_call.items EXCEPT ![k] = AfterFailure(@, kind)])

\* The sleep between two attempts ends.
SleepEnds(k) ==
    /\ k \in DOMAIN gen_call.items
    /\ gen_call.items[k].st = "sleep"
    /\ CallGoesOn(gen_call.stage,
                  [gen_call.items EXCEPT ![k] = [@ EXCEPT !.st = "fetch",
                                                          !.attempt = @ + 1]])

\* asyncio.gather ends (client.py:280): with all the file names when every
\* download returned (how = "ok"), with the exception of a download that
\* raised otherwise.  An HTTPStatusError from the batch of the first
\* request is caught at client.py:110 like one of the request itself: a
\* call without image_data goes on to the fallback request.
BatchEnds(how) ==
    /\ gen_call.stage \in {"batch1", "batch2"}
    /\ IF how = "ok"
       THEN /\ \A k \in DOMAIN gen_call.items : gen_call.items[k].st = "done"
            /\ CallReturns(Gather(CallTask, gen_call.stage, gen_call.items))
       ELSE /\ \E k \in DOMAIN gen_call.items :
                  gen_call.items[k].st = "raised" /\ gen_call.items[k].err = how
            /\ IF how = "http" /\ gen_call.stage = "batch1" /\ ~gen_call.img2img
               THEN CallGoesOn("post2", << >>)
               ELSE CallRaises(IF how = "http" THEN "HTTP 500" ELSE "")

\* Worker indices a pool can have with the configuration files above.
PoolIds == UNION {1..get_max_concurrent(file) : file \in ConfigFiles}
Workers == DOMAIN worker_tasks

\* The task queue through the runs of the process.  max_concurrent is read
\* by start_workers only, which startup_event calls right after setting it:
\* the requests that change it afterwards are left to NextConcurrent.
Next ==
    \/ Startup_Reset
    \/ \E file \in ConfigFiles : Startup_Requeue(file)
    \/ \E file \in ConfigFiles : Startup_StartWorkers(file)
    \/ \E name \in RequestNames, file \in ConfigFiles, n \in ResultCounts :
            CreateTask(name, file, n, NoneVal)
    \/ \E i \in Workers : WorkerBegin(i)
    \/ \E i \in Workers : WorkerWake(i)
    \/ \E i \in Workers, k \in ResultCounts : GenReturn(i, k)
    \/ \E i \in Workers, e \in ErrTexts : GenRaise(i, e)
    \/ \E i \in Workers : WorkerResume(i)
    \/ StopWorkers
    \/ Restart

Spec == Init /\ [][Next]_vars

\* The task queue with max_concurrent changed by request at any time.  The
\* size of the pool does not depend on the text a failing call raises: one
\* text is raised.
NextConcurrent ==
    \/ Startup_Reset
    \/ \E file \in ConfigFiles : Startup_Requeue(file)
    \/ \E file \in ConfigFiles : Startup_StartWorkers(file)
    \/ \E name \in RequestNames, file \in ConfigFiles, n \in ResultCounts :
            CreateTask(name, file, n, NoneVal)
    \/ \E n \in 1..2 : SetConcurrent(n)
    \/ \E i \in Workers : WorkerBegin(i)
    \/ \E i \in Workers : WorkerWake(i)
    \/ \E i \in Workers, k \in ResultCounts : GenReturn(i, k)
    \/ \E i \in Workers : GenRaise(i, "HTTP 500")
    \/ \E i \in Workers : WorkerResume(i)
    \/ StopWorkers
    \/ Restart

SpecConcurrent == Init /\ [][NextConcurrent]_vars

\* The task queue with requeue_pending_tasks also run on demand.  It reads
\* the status of a row, never its error text: failing calls raise one text.
NextRequeue ==
    \/ Startup_Reset
    \/ \E file \in ConfigFiles : Startup_Requeue(file)
    \/ \E file \in ConfigFiles : Startup_StartWorkers(file)
    \/ \E name \in RequestNames, file \in ConfigFiles, n \in ResultCounts :
            CreateTask(name, file, n, NoneVal)
    \/ \E file \in ConfigFiles : RequeueAgain(file)
    \/ \E i \in Workers : WorkerBegin(i)
    \/ \E i \in Workers : WorkerWake(i)
    \/ \E i \in Workers, k \in ResultCounts : GenReturn(i, k)
    \/ \E i \in Workers : GenRaise(i, "HTTP 500")
    \/ \E i \in Workers : WorkerResume(i)
    \/ StopWorkers
    \/ Restart

SpecRequeue == Init /\ [][NextRequeue]_vars

\* Recovery with the configuration file edited between the runs of the
\* process: the entry the stored config_name names may be gone.
CfgOnlyB == [api_configs |-> <<CfgB>>, max_concurrent |-> 2]
RecoveryFiles == ConfigFiles \cup {CfgOnlyB}

NextRecovery ==
    \/ Startup_Reset
    \/ \E file \in RecoveryFiles : Startup_Requeue(file)
    \/ \E file \in ConfigFiles : Startup_StartWorkers(file)
    \/ \E name \in RequestNames, file \in ConfigFiles, n \in ResultCounts :
            CreateTask(name, file, n, NoneVal)
    \/ \E i \in Workers : WorkerBegin(i)
    \/ \E i \in Workers : WorkerWake(i)
    \/ \E i \in Workers, k \in ResultCounts : GenReturn(i, k)
    \/ \E i \in Workers, e \in ErrTexts : GenRaise(i, e)
    \/ \E i \in Workers : WorkerResume(i)
    \/ StopWorkers
    \/ Restart

SpecRecovery == Init /\ [][NextRecovery]_vars

\* One process that is never stopped or killed, with a configuration file
\* that makes a pool of two or of one, the latter without a usable entry.
LiveFiles == {file \in ConfigFiles : file.api_configs \in {<<CfgA>>, <<CfgSlash>>}}

NextLive ==
    \/ Startup_Reset
    \/ \E file \in LiveFiles : Startup_Requeue(file)
    \/ \E file \in LiveFiles : Startup_StartWorkers(file)
    \/ \E file \in LiveFiles, n \in ResultCounts : CreateTask(NoneVal, file, n, NoneVal)
    \/ \E i \in Workers : WorkerBegin(i)
    \/ \E i \in Workers : WorkerWake(i)
    \/ \E i \in Workers, k \in ResultCounts : GenReturn(i, k)
    \/ \E i \in Workers, e \in ErrTexts : GenRaise(i, e)
    \/ \E i \in Workers : WorkerResume(i)

\* One process with observers connected: the task queue with a pool of one
\* worker whose generation calls return, the WebSocket handlers and the
\* broadcast coroutines.
PoolOfOneFiles == {file \in ConfigFiles : get_max_concurrent(file) = 1}
Broadcasts == DOMAIN broadcast_tasks
NextClients == Clients \cup {NoneVal}

NextBroadcast ==
    \/ Startup_Reset
    \/ \E file \in PoolOfOneFiles : Startup_Requeue(file)
    \/ \E file \in PoolOfOneFiles : Startup_StartWorkers(file)
    \/ \E file \in LiveFiles, n \in ResultCounts : CreateTask(NoneVal, file, n, NoneVal)
    \/ \E i \in Workers : WorkerBegin(i)
    \/ \E i \in Workers : WorkerWake(i)
    \/ \E i \in Workers, k \in ResultCounts : GenReturn(i, k)
    \/ \E i \in Workers : WorkerResume(i)
    \/ StopWorkers
    \/ \E c \in Clients : Connect(c)
    \/ \E c \in Clients : Disconnect(c)
    \/ \E i \in Broadcasts, nxt \in NextClients : BroadcastBegin(i, nxt)
    \/ \E i \in Broadcasts, nxt \in NextClients : BroadcastWake(i, nxt)
    \/ \E i \in Broadcasts : SendReturn(i)
    \/ \E i \in Broadcasts : SendRaise(i)
    \/ \E i \in Broadcasts, nxt \in NextClients : BroadcastResume(i, nxt)

SpecBroadcast == Init /\ [][NextBroadcast]_vars

\* One process with a pool of one worker whose generation calls are
\* followed through their requests and downloads; every task asks for one
\* image, with or without a reference image.
Items == DOMAIN gen_call.items
PostShapes == {"b64", "url", "http_error", "error"}
FailKinds == {"http", "other"}

NextDownload ==
    \/ Startup_Reset
    \/ \E file \in PoolOfOneFiles : Startup_Requeue(file)
    \/ \E file \in PoolOfOneFiles : Startup_StartWorkers(file)
    \/ \E file \in LiveFiles, image_data \in RequestImages :
            CreateTask(NoneVal, file, 1, image_data)
    \/ \E i \in Workers : WorkerBegin(i)
    \/ \E i \in Workers : WorkerWake(i)
    \/ \E i \in Workers : WorkerResume(i)
    \/ \E i \in Workers : GenStart(i)
    \/ \E shape \in PostShapes, n \in BatchSizes : PostResponds(shape, n)
    \/ \E k \in Items : ItemAcquire(k)
    \/ \E k \in Items : FetchOk(k)
    \/ \E k \in Items, kind \in FailKinds : FetchFail(k, kind)
    \/ \E k \in Items : SleepEnds(k)
    \/ \E how \in FailKinds \cup {"ok"} : BatchEnds(how)

SpecDownload == Init /\ [][NextDownload]_vars

\* One process whose task queue is started with a pool of one worker, then
\* reconfigured, stopped and started again.
NextPool ==
    \/ Startup_Reset
    \/ \E file \in PoolOfOneFiles : Startup_Requeue(file)
    \/ \E file \in PoolOfOneFiles : Startup_StartWorkers(file)
    \/ \E file \in LiveFiles, n \in ResultCounts : CreateTask(NoneVal, file, n, NoneVal)
    \/ \E n \in 1..2 : SetConcurrent(n)
    \/ StartWorkers
    \/ \E i \in Workers : WorkerBegin(i)
    \/ \E i \in Workers : WorkerWake(i)
    \/ \E i \in Workers, k \in ResultCounts : GenReturn(i, k)
    \/ \E i \in Workers : GenRaise(i, "HTTP 500")
    \/ \E i \in Workers : WorkerResume(i)
    \/ StopWorkers

SpecPool == Init /\ [][NextPool]_vars

\* One process with a pool of one worker and an observer that connects,
\* its creation requests followed to their answers.
NextCreate ==
    \/ Startup_Reset
    \/ \E file \in PoolOfOneFiles : Startup_Requeue(file)
    \/ \E file \in PoolOfOneFiles : Startup_StartWorkers(file)
    \/ \E file \in ConfigFiles, n \in RequestCounts, image_data \in RequestImages :
            PostTask(NoneVal, file, n, image_data)
    \/ Connect(ClientOrder[1])
    \/ \E i \in Workers : WorkerBegin(i)
    \/ \E i \in Workers : WorkerWake(i)
    \/ \E i \in Workers, k \in ResultCounts : GenReturn(i, k)
    \/ \E i \in Workers : WorkerResume(i)

SpecCreate == Init /\ [][NextCreate]_vars

\* The runs of the process with the configuration file edited at any time,
\* the creation requests followed to their answers.
NextSettings ==
    \/ Startup_Reset
    \/ \E file \in ConfigFiles : Startup_Requeue(file)
    \/ \E file \in ConfigFiles : Startup_StartWorkers(file)
    \/ \E name \in RequestNames, file \in ConfigFiles, n \in RequestCounts,
          image_data \in RequestImages :
            PostTask(name, file, n, image_data)
    \/ \E i \in Workers : WorkerBegin(i)
    \/ \E i \in Workers : WorkerWake(i)
    \/ \E i \in Workers, k \in ResultCounts : GenReturn(i, k)
    \/ \E i \in Workers : WorkerResume(i)
    \/ Restart

SpecSettings == Init /\ [][NextSettings]_vars

\* One process whose writes to the store may raise while a worker
\* processes a task.
StoreErrText == "database is locked"

NextStore ==
    \/ Startup_Reset
    \/ \E file \in LiveFiles : Startup_Requeue(file)
    \/ \E file \in LiveFiles : Startup_StartWorkers(file)
    \/ \E file \in LiveFiles, n \in ResultCounts : CreateTask(NoneVal, file, n, NoneVal)
    \/ \E i \in Workers : WorkerBegin(i)
    \/ \E i \in Workers : WorkerWake(i)
    \/ \E i \in Workers : RunningWriteRaises(i)
    \/ \E i \in Workers, k \in ResultCounts : GenReturn(i, k)
    \/ \E i \in Workers : GenRaise(i, "HTTP 500")
    \/ \E i \in Workers : WorkerResume(i)
    \/ \E i \in Workers : TerminalWriteRaises(i)
    \/ \E i \in Workers, k \in 1..2 : ImageWriteRaises(i, k, StoreErrText)

SpecStore == Init /\ [][NextStore]_vars

\* One process with a pool of one worker and observers whose handlers are
\* followed through the send of their initial message.
NextObserver ==
    \/ Startup_Reset
    \/ \E file \in PoolOfOneFiles : Startup_Requeue(file)
    \/ \E file \in PoolOfOneFiles : Startup_StartWorkers(file)
    \/ \E file \in LiveFiles, n \in ResultCounts : CreateTask(NoneVal, file, n, NoneVal)
    \/ \E i \in Workers : WorkerBegin(i)
    \/ \E i \in Workers : WorkerWake(i)
    \/ \E i \in Workers, k \in ResultCounts : GenReturn(i, k)
    \/ \E i \in Workers : WorkerResume(i)
    \/ \E c \in Clients : ConnectAwaitsInitial(c)
    \/ \E c \in Clients : InitialSent(c)
    \/ \E c \in Clients : InitialRaises(c)
    \/ \E c \in Clients : Disconnect(c)
    \/ \E i \in Broadcasts, nxt \in NextClients : BroadcastBegin(i, nxt)
    \/ \E i \in Broadcasts, nxt \in NextClients : BroadcastWake(i, nxt)
    \/ \E i \in Broadcasts : SendReturn(i)
    \/ \E i \in Broadcasts : SendRaise(i)
    \/ \E i \in Broadcasts, nxt \in NextClients : BroadcastResume(i, nxt)

SpecObserver == Init /\ [][NextObserver]_vars

\* _download_single_image's choice of the extension, for every response
\* and URL above.
InitExtension == InitQueue /\ fetched \in FetchCases
NextExtension == DetermineExt
SpecExtension == InitExtension /\ [][NextExtension]_vars

\* A step of worker i's coroutine, and the end of its generation call.
WorkerStep(i) == WorkerBegin(i) \/ WorkerWake(i) \/ WorkerResume(i)
GenEnds(i) ==
    \/ \E k \in ResultCounts : GenReturn(i, k)
    \/ \E e \in ErrTexts : GenRaise(i, e)

\* The event loop runs every coroutine that stays ready, and every
\* generation call ends.
LiveSpec ==
    /\ Init
    /\ [][NextLive]_vars
    /\ \A i \in PoolIds : WF_vars(WorkerStep(i)) /\ WF_vars(GenEnds(i))

(* ------------------------------- claims -------------------------------- *)
HoldersOf(t) == {i \in DOMAIN worker_tasks :
                    worker_tasks[i].st = "gen" /\ worker_tasks[i].task = t}
RunningInMemory == {t \in DOMAIN tasks : tasks[t].status = RUNNING}
RunningInTable == {t \in DOMAIN db : db[t].status = RUNNING}
NoDuplicates(q) == \A i, j \in DOMAIN q : q[i] = q[j] => i = j
LegalEdge(a, b) ==
    \/ a = b
    \/ a = QUEUED /\ b = RUNNING
    \/ a = RUNNING /\ b \in Terminal

\* C1: in every step of a process other than the startup demotion, the
\* status of each task, in memory and in its row, stays as it is or moves
\* along queued -> running, running -> succeeded or running -> failed, and a
\* task or row that appears is queued.
C1_StatusEdges ==
    [][phase # "start" =>
        /\ \A t \in DOMAIN tasks \cap DOMAIN tasks' :
              LegalEdge(tasks[t].status, tasks'[t].status)
        /\ \A t \in DOMAIN tasks' \ DOMAIN tasks : tasks'[t].status = QUEUED
        /\ DOMAIN db \subseteq DOMAIN db'
        /\ \A t \in DOMAIN db : LegalEdge(db[t].status, db'[t].status)
        /\ \A t \in DOMAIN db' \ DOMAIN db : db'[t].status = QUEUED]_vars

\* A process in which one task has succeeded and another has failed, in
\* memory and in the table.
C1_Witness ==
    \E t, u \in DOMAIN tasks :
        /\ tasks[t].status = SUCCEEDED /\ db[t].status = SUCCEEDED
        /\ tasks[u].status = FAILED /\ db[u].status = FAILED

\* C2: the number of tasks whose status is running never exceeds the number
\* of workers the pool was started with, which is max_concurrent as it was
\* when start_workers ran; in the table this holds once the startup
\* demotion of the process has run.
C2_RunningBounded ==
    /\ Cardinality(RunningInMemory) <= pool_size
    /\ phase # "start" => Cardinality(RunningInTable) <= pool_size
    /\ phase = "serving" => Len(worker_tasks) = pool_size

\* The only worker of a pool of one is running a task while another task
\* waits in the queue, after max_concurrent was set to two.
C2_Witness ==
    /\ pool_size = 1
    /\ max_concurrent = 2
    /\ Cardinality(RunningInMemory) = 1
    /\ Cardinality(RunningInTable) = 1
    /\ queue # << >>

\* C3: with the workers running and every generation call ending, every
\* submitted task eventually is succeeded or failed, in memory and in the
\* table.
C3_EveryTaskEnds ==
    \A t \in 1..MaxTasks :
        (t \in DOMAIN tasks) ~>
            (t \in DOMAIN tasks /\ tasks[t].status \in Terminal
                                /\ db[t].status \in Terminal)

\* All the tasks the bound allows were submitted to a single worker and
\* have ended.
C3_Witness ==
    /\ pool_size = 1
    /\ Cardinality(DOMAIN tasks) = MaxTasks
    /\ \A t \in DOMAIN tasks : tasks[t].status \in Terminal

\* C4: tasks start in the order their ids were put on the queue: when a
\* task has been marked running, every task put before it was marked
\* running before it.
C4_FifoStart ==
    \A i, j \in DOMAIN put_log :
        i < j =>
            \A q \in DOMAIN start_log :
                start_log[q] = put_log[j] =>
                    \E p \in DOMAIN start_log : p < q /\ start_log[p] = put_log[i]

\* Two tasks run together and the one started later has ended first.
C4_Witness ==
    \E p, q \in DOMAIN start_log :
        /\ p < q
        /\ tasks[start_log[p]].status = RUNNING
        /\ tasks[start_log[q]].status \in Terminal

\* C5: when a worker resumes from a generation call that raised, its task
\* is failed with the exception's text (the row gets the text when it is
\* not empty), the worker goes on with the next id of the queue or waits for
\* one, and no other task changes except the one the worker goes on with;
\* while the process serves, all pool_size workers are alive.
C5_FailureContained ==
    /\ [](phase = "serving" =>
            /\ Len(worker_tasks) = pool_size
            /\ \A i \in DOMAIN worker_tasks : worker_tasks[i].st # "done")
    /\ [][\A i \in DOMAIN worker_tasks \cap DOMAIN worker_tasks' :
            (/\ worker_tasks[i].st = "gen"
             /\ worker_tasks[i].fut.kind = "exc"
             /\ worker_tasks'[i] # worker_tasks[i]) =>
                LET t == worker_tasks[i].task
                    text == worker_tasks[i].fut.text
                    next == worker_tasks'[i]
                IN /\ tasks'[t].status = FAILED /\ tasks'[t].error = text
                   /\ tasks'[t].results = << >>
                   /\ db'[t].status = FAILED
                   /\ db'[t].error = (IF text # "" THEN text ELSE NoneVal)
                   /\ IF queue = << >>
                      THEN next.st = "get"
                      ELSE next.st = "gen" /\ next.task = Head(queue)
                   /\ \A u \in DOMAIN tasks \ {t} :
                        \/ tasks'[u] = tasks[u] /\ db'[u] = db[u]
                        \/ /\ next.st = "gen" /\ next.task = u
                           /\ tasks[u].status = QUEUED /\ tasks'[u].status = RUNNING
                   /\ \A j \in DOMAIN worker_tasks \ {i} :
                        worker_tasks'[j] = worker_tasks[j]]_vars

\* The single worker of a pool has failed a task, recorded the text, and
\* is running the next one.
C5_Witness ==
    /\ pool_size = 1
    /\ \E t, u \in DOMAIN tasks :
        /\ tasks[t].status = FAILED /\ db[t].error = "HTTP 500"
        /\ tasks[u].status = RUNNING /\ HoldersOf(u) = {1}

\* C6 as stated: whenever a task's status is running, exactly one worker is
\* processing it.
C6_RunningHasOneWorker ==
    \A t \in RunningInMemory : Cardinality(HoldersOf(t)) = 1

\* C6 as amended: an id is put on the queue at most once and marked running
\* at most once per process, never waits in the queue while or after it is
\* processed, and is never held by two workers; until the pool is stopped a
\* task is running exactly when one worker is processing it.
C6_OneWorkerPerTask ==
    /\ NoDuplicates(put_log)
    /\ NoDuplicates(start_log)
    /\ NoDuplicates(queue)
    /\ \A q \in DOMAIN queue : \A p \in DOMAIN start_log : queue[q] # start_log[p]
    /\ \A t \in DOMAIN tasks : Cardinality(HoldersOf(t)) <= 1
    /\ \A i \in DOMAIN worker_tasks :
          worker_tasks[i].st = "gen" => worker_tasks[i].task \in RunningInMemory
    /\ phase = "serving" => \A t \in RunningInMemory : Cardinality(HoldersOf(t)) = 1

\* Two workers process two different tasks, both taken from the queue.
C6_Witness ==
    /\ phase = "serving"
    /\ Cardinality(RunningInMemory) = 2
    /\ \A t \in RunningInMemory : Cardinality(HoldersOf(t)) = 1
    /\ Len(put_log) = 2 /\ queue = << >>

\* C7: a task, in memory or in the table, has results only when it is
\* succeeded and an error only when it is failed.
C7_ResultsXorError ==
    /\ \A t \in DOMAIN tasks :
          /\ tasks[t].results # << >> => tasks[t].status = SUCCEEDED
          /\ tasks[t].error # NoneVal => tasks[t].status = FAILED
    /\ \A t \in DOMAIN db :
          /\ db[t].results # NullResults => db[t].status = SUCCEEDED
          /\ db[t].error # NoneVal => db[t].status = FAILED

\* One task holds results and another an error, in memory and in the table.
C7_Witness ==
    \E t, u \in DOMAIN tasks :
        /\ tasks[t].results # << >> /\ db[t].results # NullResults
        /\ tasks[u].error = "HTTP 500" /\ db[u].error = "HTTP 500"

\* C8 as stated: a task, in memory or in the table, has started_at exactly
\* when it is not queued and finished_at exactly when it is succeeded or
\* failed.
C8_Timestamps ==
    /\ \A t \in DOMAIN tasks :
          /\ tasks[t].started_at # NullTime <=> tasks[t].status # QUEUED
          /\ tasks[t].finished_at # NullTime <=> tasks[t].status \in Terminal
    /\ \A t \in DOMAIN db :
          /\ db[t].started_at # NullTime <=> db[t].status # QUEUED
          /\ db[t].finished_at # NullTime <=> db[t].status \in Terminal

\* C9: the startup demotion turns every running row into a queued row
\* without started_at, finished_at and error, leaves every other row as it
\* is, and reports the number of rows it changed; no row is running between
\* the demotion and the start of the workers.
C9_Demotion ==
    /\ [](phase \in {"reset", "requeued"} => RunningInTable = {})
    /\ [][phase = "start" /\ phase' = "reset" =>
            /\ DOMAIN db' = DOMAIN db
            /\ reset_count' = Cardinality(RunningInTable)
            /\ \A t \in DOMAIN db :
                  IF db[t].status = RUNNING
                  THEN db'[t] = [db[t] EXCEPT !.status = QUEUED,
                                              !.started_at = NullTime,
                                              !.finished_at = NullTime,
                                              !.error = NoneVal]
                  ELSE db'[t] = db[t]]_vars

\* The demotion has just reset a row, beside a succeeded or failed row it
\* had to leave alone.
C9_Witness ==
    /\ phase = "reset"
    /\ reset_count = 1
    /\ \E t \in DOMAIN db : db[t].status \in Terminal
    /\ \E t \in DOMAIN db : db[t].status = QUEUED /\ db[t].finished_at = NullTime

\* C10: however often requeue_pending_tasks runs, between task creations
\* too, an id is put on the queue at most once, is in the queue at most
\* once, and every id put on the queue has its entry in the task map, which
\* a later run does not replace.
C10_RequeueOnce ==
    /\ NoDuplicates(put_log)
    /\ NoDuplicates(queue)
    /\ \A i \in DOMAIN put_log : put_log[i] \in DOMAIN tasks
    /\ \A t \in DOMAIN tasks :
          \E i \in DOMAIN put_log : put_log[i] = t
    /\ \A q \in DOMAIN queue : queue[q] \in DOMAIN tasks /\ tasks[queue[q]].status = QUEUED

\* A run of requeue_pending_tasks after startup has put a row of an earlier
\* process on the queue behind a task created by this process.
C10_Witness ==
    \E i, j \in DOMAIN put_log :
        /\ i < j
        /\ db[put_log[j]].created_at < db[put_log[i]].created_at
        /\ put_log[j] \in {queue[q] : q \in DOMAIN queue}

InQueue(t) == \E q \in DOMAIN queue : queue[q] = t
NamesNoEntry(file, name) ==
    name # NoneVal /\ FindByName(file.api_configs, name, 1) = 0
LacksCredentials(file, name) ==
    LET idx == select_config(file, name)
    IN idx = 0 \/ ~SettingsUsable(MakeSettings(file.api_configs[idx], file))

\* C11 as stated: when startup's requeue_pending_tasks has run, a queued
\* row whose config_name names no entry of the configuration file it read,
\* or whose resolved entry lacks base_url or api_key, is still queued and is
\* neither in the task map nor in the queue.
C11_UnresolvedSkipped ==
    phase = "requeued" =>
        \A t \in DOMAIN db :
            (/\ db[t].status = QUEUED
             /\ \/ NamesNoEntry(requeue_file, db[t].config_name)
                \/ LacksCredentials(requeue_file, db[t].config_name)) =>
                t \notin DOMAIN tasks /\ ~InQueue(t)

\* C12: until start_workers has run in a process there is no worker, no
\* running task and nothing marked running; a process goes through
\* demotion, requeue and start_workers in this order, once each; and a row
\* goes from running to queued only in the demotion step, which finds the
\* task map of its process empty.
C12_RecoveryBeforeWorkers ==
    /\ [](phase \in {"start", "reset", "requeued"} =>
            /\ worker_tasks = << >> /\ ~is_running
            /\ running_tasks = {} /\ RunningInMemory = {} /\ start_log = << >>)
    /\ [][phase' # phase =>
            \/ phase' = "start" /\ epoch' = epoch + 1
            \/ <<phase, phase'>> \in {<<"start", "reset">>, <<"reset", "requeued">>,
                                     <<"requeued", "serving">>, <<"serving", "stopped">>}]_vars
    /\ [][(\E t \in DOMAIN db : db[t].status = RUNNING /\ db'[t].status = QUEUED) =>
            /\ phase = "start" /\ phase' = "reset"
            /\ tasks = << >> /\ worker_tasks = << >>]_vars

\* A task created by the previous process is being executed by a worker of
\* this one, after recovery put it on the queue.
C12_Witness ==
    /\ phase = "serving" /\ epoch = 1
    /\ \E t \in DOMAIN tasks :
          /\ db[t].created_at = 1
          /\ tasks[t].status = RUNNING /\ Cardinality(HoldersOf(t)) = 1

\* C13 as stated: when stop_workers cancels a worker that is in its
\* generation call, the row of its task is running with started_at, without
\* finished_at, results and error, and the step leaves the row as it is.
C13_CancelWritesNothing ==
    [][phase = "serving" /\ phase' = "stopped" =>
        \A i \in DOMAIN worker_tasks :
            worker_tasks[i].st = "gen" =>
                LET t == worker_tasks[i].task
                IN /\ db[t].status = RUNNING /\ db[t].started_at # NullTime
                   /\ db[t].finished_at = NullTime /\ db[t].results = NullResults
                   /\ db[t].error = NoneVal
                   /\ db'[t] = db[t]]_vars

\* C15: a row that is succeeded or failed keeps its status, results and
\* error in every step, and so does its task in memory while the process
\* lives; its id is never put on the queue or marked running again, is not
\* in the queue and is held by no worker.
C15_TerminalIsFinal ==
    /\ [](\A t \in DOMAIN db :
            db[t].status \in Terminal =>
                /\ ~InQueue(t) /\ HoldersOf(t) = {} /\ t \notin running_tasks
                /\ t \in DOMAIN tasks => tasks[t].status = db[t].status)
    /\ [][\A t \in DOMAIN db :
            db[t].status \in Terminal =>
                /\ db'[t].status = db[t].status
                /\ db'[t].results = db[t].results
                /\ db'[t].error = db[t].error
                /\ t \in DOMAIN tasks \cap DOMAIN tasks' =>
                      /\ tasks'[t].status = tasks[t].status
                      /\ tasks'[t].results = tasks[t].results
                      /\ tasks'[t].error = tasks[t].error
                /\ \A i \in DOMAIN put_log' : i > Len(put_log) => put_log'[i] # t
                /\ \A i \in DOMAIN start_log' : i > Len(start_log) => start_log'[i] # t
                /\ t \notin DOMAIN tasks => t \notin DOMAIN tasks']_vars

\* After a restart the process serves with a task of the previous process
\* recovered into memory beside a failed row that recovery left alone.
C15_Witness ==
    /\ phase = "serving" /\ epoch = 1
    /\ \E t \in DOMAIN db :
          db[t].status = FAILED /\ db[t].created_at = 1 /\ t \notin DOMAIN tasks
    /\ \E u \in DOMAIN tasks : db[u].created_at = 1

StatusesOf(T) == [t \in DOMAIN T |-> T[t].status]
Delivering == {i \in DOMAIN broadcast_tasks :
                  broadcast_tasks[i].st \in {"woken", "send"}}

C16_SendFailureContained ==
    [][\A i \in DOMAIN broadcast_tasks :
        LET b == broadcast_tasks[i]
        IN (/\ b.st = "send" /\ b.res \in {"ok", "exc"}
            /\ phase' = phase
            /\ broadcast_tasks' = WakeFirst(RemoveAt(broadcast_tasks, i))
            /\ AfterSend(b).failed # {}) =>
              LET e == AfterSend(b)
              IN /\ websocket_clients' \cap e.failed = {}
                 /\ \A c \in (e.start \ e.failed) \cap websocket_clients :
                       \E p \in e.got : p[1] = c
                 /\ tasks' = tasks /\ db' = db /\ worker_tasks' = worker_tasks]_vars

\* C17: at most one broadcast holds the lock, so no client has sends of two
\* broadcasts in flight, and every send of a broadcast that returned
\* carried the snapshot the broadcast took before the lock, to a client the
\* loop had yielded.
C17_OneDelivering ==
    /\ Cardinality(Delivering) <= 1
    /\ \A c \in Clients :
          Cardinality({i \in DOMAIN broadcast_tasks :
                          /\ broadcast_tasks[i].st = "send"
                          /\ broadcast_tasks[i].res = "pending"
                          /\ broadcast_tasks[i].cur = c}) <= 1
    /\ \A i \in DOMAIN broadcast_tasks :
          /\ \A p \in broadcast_tasks[i].got :
                p[2] = broadcast_tasks[i].message /\ p[1] \in broadcast_tasks[i].visited
          /\ i \notin Delivering =>
                broadcast_tasks[i].got = {} /\ broadcast_tasks[i].failed = {}

\* Three broadcasts are in flight: one has delivered to the first observer
\* and is sending to the second while two others wait for the lock.
C17_Witness ==
    \E i \in DOMAIN broadcast_tasks :
        /\ broadcast_tasks[i].st = "send" /\ broadcast_tasks[i].res = "pending"
        /\ Cardinality(broadcast_tasks[i].got) = 1
        /\ Cardinality({j \in DOMAIN broadcast_tasks :
                            broadcast_tasks[j].st = "wait"}) = 2

InBatch == gen_call.stage \in {"batch1", "batch2"}
InFlight == {k \in DOMAIN gen_call.items : gen_call.items[k].st \in {"fetch", "sleep"}}
Exhausted == {k \in DOMAIN gen_call.items : gen_call.items[k].st = "raised"}
BatchLeft == InBatch /\ gen_call'.stage # gen_call.stage

\* C18: the downloads of a batch that are in an attempt or in the sleep
\* between two attempts are never more than the download concurrency.
C18_DownloadsBounded == Cardinality(InFlight) <= DownloadConcurrency

\* Of three downloads one is fetching, one sleeps before its next attempt
\* and one waits for the semaphore.
C18_Witness ==
    /\ \E k \in DOMAIN gen_call.items : gen_call.items[k].st = "fetch"
    /\ \E k \in DOMAIN gen_call.items : gen_call.items[k].st = "sleep"
    /\ \E k \in DOMAIN gen_call.items : gen_call.items[k].st = "sem"

\* C19: a download makes at most 3 attempts, a new attempt only after a
\* failed one, and none after it has written its file; it re-raises only
\* when its third attempt failed, an attempt that succeeds, the third too,
\* leaves it done; and a batch in which a download re-raised never ends by
\* returning file names.
C19_ThreeAttempts ==
    /\ [](\A k \in DOMAIN gen_call.items :
            LET item == gen_call.items[k]
            IN /\ item.attempt <= 3
               /\ item.st = "raised" => item.attempt = 3
               /\ item.st = "sleep" => item.attempt \in {1, 2}
               /\ item.st \in {"fetch", "done"} => item.attempt \in {1, 2, 3})
    /\ [][(InBatch /\ gen_call'.stage = gen_call.stage) =>
            \A k \in DOMAIN gen_call.items :
                LET a == gen_call.items[k]
                    b == gen_call'.items[k]
                IN /\ a.st \in {"done", "raised"} => b = a
                   /\ b.attempt # a.attempt =>
                         /\ b.attempt = a.attempt + 1 /\ b.st = "fetch"
                         /\ a.st \in {"sem", "sleep"}
                   /\ (a.st = "fetch" /\ b.st # "fetch") =>
                         \/ b.st = "done"
                         \/ b.st = "sleep" /\ a.attempt < 3
                         \/ b.st = "raised" /\ a.attempt = 3]_vars
    /\ [][(BatchLeft /\ Exhausted # {}) =>
            worker_tasks'[gen_call.owner].fut.kind # "ok"]_vars

\* In one batch a download has written its file on its third attempt and
\* another has failed three times.
C19_Witness ==
    /\ \E k \in DOMAIN gen_call.items :
          gen_call.items[k].st = "done" /\ gen_call.items[k].attempt = 3
    /\ Exhausted # {}

\* C20 as stated: when a batch in which a download has exhausted its
\* attempts ends, the generation call ends with it by raising; and a worker
\* that resumes from a call that raised leaves its task failed with empty
\* results and no file name of the task in the image registry.
C20_ExhaustionFailsTask ==
    /\ [][(BatchLeft /\ Exhausted # {}) =>
            /\ gen_call' = NoCall
            /\ worker_tasks'[gen_call.owner].fut.kind = "exc"]_vars
    /\ [][\A i \in DOMAIN worker_tasks \cap DOMAIN worker_tasks' :
            (/\ worker_tasks[i].st = "gen" /\ worker_tasks[i].fut.kind = "exc"
             /\ worker_tasks'[i] # worker_tasks[i]) =>
                LET t == worker_tasks[i].task
                IN /\ tasks'[t].status = FAILED /\ tasks'[t].results = << >>
                   /\ db'[t].status = FAILED /\ db'[t].results = NullResults
                   /\ \A f \in images' : f[1] # t]_vars

\* C29 as stated: the extension determined for a response is the one its
\* content-type names when it names jpeg, jpg or png; otherwise the one the
\* URL ends with when that is .jpg or .png; otherwise jpg.
C29_ContentTypeFirst ==
    fetched.ext # NoneVal =>
        LET ct == fetched.content_type
            u == fetched.image_url
        IN fetched.ext =
             IF Contains(Jpeg, ct) \/ Contains(Jpg, ct) THEN "jpg"
             ELSE IF Contains(Png, ct) THEN "png"
             ELSE IF EndsWith(u, Dot \o Jpg) THEN "jpg"
             ELSE IF EndsWith(u, Dot \o Png) THEN "png"
             ELSE "jpg"

\* C30 as stated: every task resident in memory has the status, started_at,
\* finished_at, results and error of its row (a NULL results column reads as
\* the empty list), in every state between two steps of the coroutines.
C30_MemoryEqualsRow ==
    \A t \in DOMAIN tasks :
        /\ t \in DOMAIN db
        /\ tasks[t].status = db[t].status
        /\ tasks[t].started_at = db[t].started_at
        /\ tasks[t].finished_at = db[t].finished_at
        /\ tasks[t].results = db[t].results
        /\ tasks[t].error = db[t].error

\* C23: a creation request that carries image_data and n other than 1 is
\* answered 400 and its step leaves the task map, the queue, the table and
\* the broadcast coroutines as they were; so no task with image_data has n
\* other than 1.
C23_RefImageRejected ==
    /\ [](\A t \in DOMAIN tasks : tasks[t].image_data # NoneVal => tasks[t].n = 1)
    /\ [][(post_answer' # post_answer
            /\ post_answer'.image_data # NoneVal /\ post_answer'.n # 1) =>
              /\ post_answer'.code = 400 /\ post_answer'.task_id = 0
              /\ tasks' = tasks /\ queue' = queue /\ put_log' = put_log
              /\ db' = db /\ broadcast_tasks' = broadcast_tasks]_vars

\* With an observer connected and a task in the queue, a request with a
\* reference image and n = 3 whose configuration resolved was answered 400.
C23_Witness ==
    /\ post_answer.image_data = RefImage /\ post_answer.n = 3
    /\ post_answer.config # NoneVal /\ post_answer.code = 400
    /\ websocket_clients # {}
    /\ queue # << >>

\* C24 as stated: the settings of a task a worker has passed to the
\* generation call are the ones built when the task was created.
C24_SettingsFromCreation ==
    \A i \in DOMAIN worker_tasks :
        (worker_tasks[i].st = "gen" /\ worker_tasks[i].task = post_answer.task_id) =>
            tasks[worker_tasks[i].task].settings = post_answer.settings

\* C25: a step that changes max_concurrent while the process serves
\* changes nothing else; while it serves the pool is running with the
\* pool_size workers it was started with; and workers are added only to a
\* pool that is not running, max_concurrent of them.
C25_SetChangesValueOnly ==
    /\ [](phase = "serving" => is_running /\ Len(worker_tasks) = pool_size)
    /\ [][(phase = "serving" /\ phase' = "serving"
            /\ max_concurrent' # max_concurrent) =>
              /\ worker_tasks' = worker_tasks /\ pool_size' = pool_size
              /\ is_running' = is_running /\ tasks' = tasks /\ queue' = queue
              /\ running_tasks' = running_tasks /\ db' = db]_vars
    /\ [][Len(worker_tasks') > Len(worker_tasks) =>
              /\ ~is_running /\ worker_tasks = << >>
              /\ Len(worker_tasks') = max_concurrent'
              /\ pool_size' = max_concurrent']_vars

\* A pool started with one worker was stopped and started again after
\* max_concurrent had been set to 2; both workers are processing tasks
\* while max_concurrent has been set back to 1.
C25_Witness ==
    /\ phase = "serving" /\ epoch = 0
    /\ pool_size = 2 /\ max_concurrent = 1
    /\ \A i \in DOMAIN worker_tasks : worker_tasks[i].st = "gen"

CallReturned ==
    /\ gen_call.stage # "none" /\ gen_call' = NoCall
    /\ worker_tasks'[gen_call.owner].fut.kind = "ok"
ReturnedFiles == worker_tasks'[gen_call.owner].fut.files

\* C21: download k of a batch has ordinal k and the URL of entry k of the
\* data list; when a batch of n entries returns, it returns n file names,
\* the i-th carrying ordinal i and written by the download of entry i; and
\* the file names of inline entries carry the ordinals 1..n in order.
C21_OrderedIdentifiers ==
    /\ [](/\ Len(gen_call.items) = Len(gen_call.data)
          /\ \A k \in DOMAIN gen_call.items :
                gen_call.items[k].idx = k /\ gen_call.items[k].url = gen_call.data[k])
    /\ [][(InBatch /\ CallReturned) =>
            /\ Len(ReturnedFiles) = Len(gen_call.data)
            /\ \A i \in DOMAIN ReturnedFiles :
                  /\ ReturnedFiles[i] = FileName(CallTask, gen_call.stage, i)
                  /\ gen_call.items[i].st = "done"
                  /\ gen_call.items[i].url = gen_call.data[i]]_vars
    /\ [][(gen_call.stage = "post1" /\ CallReturned) =>
            /\ Len(ReturnedFiles) >= 1
            /\ \A i \in DOMAIN ReturnedFiles :
                  ReturnedFiles[i] = FileName(CallTask, "post1", i)]_vars

\* All three downloads of a batch have written their files, the one of
\* the first entry last and after three attempts.
C21_Witness ==
    /\ InBatch
    /\ Len(gen_call.items) = 3
    /\ \A k \in DOMAIN gen_call.items : gen_call.items[k].st = "done"
    /\ gen_call.items[1].rank = 3 /\ gen_call.items[1].attempt = 3

\* C22 as stated: a succeeded task created without image_data has as many
\* results as its n; and a call for a task with image_data returns as many
\* file names as URLs were found in the response.
C22_ResultCount ==
    /\ [](\A t \in DOMAIN tasks :
            (tasks[t].status = SUCCEEDED /\ tasks[t].image_data = NoneVal) =>
                Len(tasks[t].results) = tasks[t].n)
    /\ [][(InBatch /\ gen_call.img2img /\ CallReturned) =>
            Len(ReturnedFiles) = Len(gen_call.data)]_vars

FirstRequestFailed ==
    /\ gen_call.stage = "post1"
    /\ gen_call'.stage \notin {"post1", "batch1"}
    /\ ~CallReturned

\* C26 as stated: without image_data a first request that fails is
\* followed by the fallback request, after which no request is made; with
\* image_data a request that fails or gives no URL ends the call by
\* raising, and no fallback request is ever made.
C26_OneFallback ==
    [][/\ (FirstRequestFailed /\ ~gen_call.img2img) => gen_call'.stage = "post2"
       /\ gen_call.stage \in {"post2", "batch2"} =>
             gen_call'.stage \in {gen_call.stage, "batch2", "none"}
       /\ gen_call.img2img => gen_call'.stage # "post2"
       /\ (FirstRequestFailed /\ gen_call.img2img) =>
             /\ gen_call' = NoCall
             /\ worker_tasks'[gen_call.owner].fut.kind = "exc"]_vars

\* C27 as stated: while a broadcast is in its loop, a step in which a
\* connection is accepted or ends leaves the client set as it is; and a
\* broadcast that leaves its loop has delivered to every client it began
\* with that is still connected and whose send did not raise.
C27_SetChangedUnderLock ==
    /\ [][((\E i \in DOMAIN broadcast_tasks : broadcast_tasks[i].st = "send")
            /\ ws_handlers' # ws_handlers) =>
              websocket_clients' = websocket_clients]_vars
    /\ [][\A i \in DOMAIN broadcast_tasks :
            LET b == broadcast_tasks[i]
            IN (/\ b.st = "send" /\ b.res \in {"ok", "exc"}
                /\ phase' = phase
                /\ broadcast_tasks' = WakeFirst(RemoveAt(broadcast_tasks, i))) =>
                  \A c \in (b.start \ AfterSend(b).failed) \cap websocket_clients :
                      \E p \in AfterSend(b).got : p[1] = c]_vars

\* A snapshot of the task as it was when the broadcast was scheduled.
SnapshotAtSchedule(b) == [task |-> b.task, status |-> b.at]

\* C28 as stated: a step that changes the status of a task while a client
\* is connected schedules a broadcast for the new status, and the message
\* of every broadcast carries the status its task had when the broadcast
\* was scheduled.
C28_UpdateCarriesTransition ==
    /\ [](\A i \in DOMAIN broadcast_tasks :
            broadcast_tasks[i].message # NoMessage =>
                broadcast_tasks[i].message = SnapshotAtSchedule(broadcast_tasks[i]))
    /\ [][(websocket_clients # {} /\ phase = "serving" /\ phase' = "serving") =>
            \A t \in DOMAIN tasks' :
                (t \notin DOMAIN tasks \/ tasks'[t].status # tasks[t].status) =>
                    \E i \in DOMAIN broadcast_tasks' :
                        /\ broadcast_tasks'[i].task = t
                        /\ broadcast_tasks'[i].at = tasks'[t].status
                        /\ broadcast_tasks'[i].st = "new"]_vars

\* C31 as stated: when a write to the store raises while a worker processes
\* a task, the worker survives, and once no worker holds the task any more
\* the task is not running in memory and its id is not in the running set.
C31_WriteFailureReleases ==
    /\ \A i \in DOMAIN worker_tasks : worker_tasks[i].st # "done"
    /\ \A t \in DOMAIN tasks :
          HoldersOf(t) = {} => tasks[t].status # RUNNING /\ t \notin running_tasks

\* C32 as stated: a task that a worker executes, after recovery has
\* re-enqueued it or not, is passed to the generation call with the count
\* and the reference image its creation request carried (the prompt is
\* stored in the row and read back unchanged).
C32_RerunAsCreated ==
    \A i \in DOMAIN worker_tasks :
        (/\ worker_tasks[i].st = "gen"
         /\ post_answer.code = 200
         /\ worker_tasks[i].task = post_answer.task_id)
        => /\ tasks[worker_tasks[i].task].n = post_answer.n
           /\ tasks[worker_tasks[i].task].image_data = post_answer.image_data

\* The image records registered for the file names of task t.
RecordsOf(t) == {f \in images : f[1] = t}

\* C33 as stated: image records exist only for the artifacts of a task that
\* ended succeeded: a succeeded task has one record per identifier in its
\* results, any other task, a failed one included, has none.
C33_RecordsOfSucceededOnly ==
    \A t \in DOMAIN tasks :
        IF tasks[t].status = SUCCEEDED
        THEN /\ RecordsOf(t) = {tasks[t].results[k] : k \in DOMAIN tasks[t].results}
             /\ NoDuplicates(tasks[t].results)
        ELSE RecordsOf(t) = {}

\* C34 as stated: while the send of a connection's initial_tasks message
\* has not returned, no broadcast has written a task_update to that
\* connection or is writing one.
C34_InitialFirst ==
    \A c \in Clients :
        ws_handlers[c] = "initial" =>
            \A i \in DOMAIN broadcast_tasks :
                ~(broadcast_tasks[i].st = "send" /\ c \in broadcast_tasks[i].visited)

====
